---- MODULE Spec2Model ----
(***************************************************************************)
(* GPAC FLAC reframer (src/filters/reframe_flac.c).                        *)
(*                                                                         *)
(* The filter context GF_FLACDmxCtx is the record ctx; the input pid, the  *)
(* output pid and the upstream source are the remaining variables.  Bytes  *)
(* are naturals in 0..255, buffers are sequences of bytes (1-based).       *)
(***************************************************************************)
EXTENDS Integers, Sequences, FiniteSets, TLC

(* ------------------------------------------------------------------ *)
(* Bit arithmetic on naturals                                          *)
(* ------------------------------------------------------------------ *)

RECURSIVE XorBits(_, _, _)
XorBits(a, b, n) ==
  IF n = 0 THEN 0
  ELSE ((a + b) % 2) + 2 * XorBits(a \div 2, b \div 2, n - 1)

XorNibble == [a \in 0..15 |-> [b \in 0..15 |-> XorBits(a, b, 4)]]

Xor8(a, b) == 16 * XorNibble[a \div 16][b \div 16] + XorNibble[a % 16][b % 16]

Xor16(a, b) == 256 * Xor8(a \div 256, b \div 256) + Xor8(a % 256, b % 256)

RECURSIVE Pow2(_)
Pow2(n) == IF n = 0 THEN 1 ELSE 2 * Pow2(n - 1)

(* the bytes d[from..to] of a buffer; empty when to < from *)
Slice(d, from, to) == IF to < from THEN << >> ELSE SubSeq(d, from, to)

(* gf_bs_read_u8 at byte position i (1-based) of a window of `size' bytes:
   a read past the end yields 0 (the overflow is tested separately) *)
ByteAt(d, size, i) == IF i >= 1 /\ i <= size /\ i <= Len(d) THEN d[i] ELSE 0

(* ------------------------------------------------------------------ *)
(* CRC-8 of frame headers                                              *)
(* ------------------------------------------------------------------ *)

flac_dmx_crc8_table ==
  <<
    0, 7, 14, 9, 28, 27, 18, 21, 56, 63, 54, 49, 36, 35, 42, 45,
    112, 119, 126, 121, 108, 107, 98, 101, 72, 79, 70, 65, 84, 83, 90, 93,
    224, 231, 238, 233, 252, 251, 242, 245, 216, 223, 214, 209, 196, 195, 202, 205,
    144, 151, 158, 153, 140, 139, 130, 133, 168, 175, 166, 161, 180, 179, 186, 189,
    199, 192, 201, 206, 219, 220, 213, 210, 255, 248, 241, 246, 227, 228, 237, 234,
    183, 176, 185, 190, 171, 172, 165, 162, 143, 136, 129, 134, 147, 148, 157, 154,
    39, 32, 41, 46, 59, 60, 53, 50, 31, 24, 17, 22, 3, 4, 13, 10,
    87, 80, 89, 94, 75, 76, 69, 66, 111, 104, 97, 102, 115, 116, 125, 122,
    137, 142, 135, 128, 149, 146, 155, 156, 177, 182, 191, 184, 173, 170, 163, 164,
    249, 254, 247, 240, 229, 226, 235, 236, 193, 198, 207, 200, 221, 218, 211, 212,
    105, 110, 103, 96, 117, 114, 123, 124, 81, 86, 95, 88, 77, 74, 67, 68,
    25, 30, 23, 16, 5, 2, 11, 12, 33, 38, 47, 40, 61, 58, 51, 52,
    78, 73, 64, 71, 82, 85, 92, 91, 118, 113, 120, 127, 106, 109, 100, 99,
    62, 57, 48, 55, 34, 37, 44, 43, 6, 1, 8, 15, 26, 29, 20, 19,
    174, 169, 160, 167, 178, 181, 188, 187, 150, 145, 152, 159, 138, 141, 132, 131,
    222, 217, 208, 215, 194, 197, 204, 203, 230, 225, 232, 239, 250, 253, 244, 243
  >>

(* the loop of flac_dmx_crc8 over the bytes d[i..last], from the value crc.
   The range is halved so that the evaluation stays shallow: Crc8Rest goes
   on after mid with the value left that the first half gave (the test on
   left only makes TLC compute it first) *)
RECURSIVE Crc8From(_, _, _, _)

Crc8Rest(d, mid, last, left) ==
  IF left < 0 THEN left ELSE Crc8From(d, mid + 1, last, left)

Crc8From(d, i, last, crc) ==
  IF i > last THEN crc
  ELSE IF i = last THEN flac_dmx_crc8_table[Xor8(crc, d[i]) + 1]
  ELSE Crc8Rest(d, (i + last) \div 2, last,
                Crc8From(d, i, (i + last) \div 2, crc))

(* crc8 of the len bytes of d that follow offset base (0-based) *)
flac_dmx_crc8(d, base, len) == Crc8From(d, base + 1, base + len, 0)

(* ------------------------------------------------------------------ *)
(* CRC-16 of frame footers                                             *)
(* ------------------------------------------------------------------ *)

flac_dmx_crc16_table ==
  <<
    0, 1408, 3968, 2560, 7040, 7680, 5120, 4480, 13184, 13824, 15360, 14720, 10240, 11648, 10112, 8704,
    25472, 26112, 27648, 27008, 30720, 32128, 30592, 29184, 20480, 21888, 24448, 23040, 19328, 19968, 17408, 16768,
    50048, 50688, 52224, 51584, 55296, 56704, 55168, 53760, 61440, 62848, 65408, 64000, 60288, 60928, 58368, 57728,
    40960, 42368, 44928, 43520, 48000, 48640, 46080, 45440, 37760, 38400, 39936, 39296, 34816, 36224, 34688, 33280,
    33665, 34305, 35841, 35201, 38913, 40321, 38785, 37377, 45057, 46465, 49025, 47617, 43905, 44545, 41985, 41345,
    57345, 58753, 61313, 59905, 64385, 65025, 62465, 61825, 54145, 54785, 56321, 55681, 51201, 52609, 51073, 49665,
    16385, 17793, 20353, 18945, 23425, 24065, 21505, 20865, 29569, 30209, 31745, 31105, 26625, 28033, 26497, 25089,
    9089, 9729, 11265, 10625, 14337, 15745, 14209, 12801, 4097, 5505, 8065, 6657, 2945, 3585, 1025, 385,
    899, 1539, 3075, 2435, 6147, 7555, 6019, 4611, 12291, 13699, 16259, 14851, 11139, 11779, 9219, 8579,
    24579, 25987, 28547, 27139, 31619, 32259, 29699, 29059, 21379, 22019, 23555, 22915, 18435, 19843, 18307, 16899,
    49155, 50563, 53123, 51715, 56195, 56835, 54275, 53635, 62339, 62979, 64515, 63875, 59395, 60803, 59267, 57859,
    41859, 42499, 44035, 43395, 47107, 48515, 46979, 45571, 36867, 38275, 40835, 39427, 35715, 36355, 33795, 33155,
    32770, 34178, 36738, 35330, 39810, 40450, 37890, 37250, 45954, 46594, 48130, 47490, 43010, 44418, 42882, 41474,
    58242, 58882, 60418, 59778, 63490, 64898, 63362, 61954, 53250, 54658, 57218, 55810, 52098, 52738, 50178, 49538,
    17282, 17922, 19458, 18818, 22530, 23938, 22402, 20994, 28674, 30082, 32642, 31234, 27522, 28162, 25602, 24962,
    8194, 9602, 12162, 10754, 15234, 15874, 13314, 12674, 4994, 5634, 7170, 6530, 2050, 3458, 1922, 514
  >>

(* one round of the loop of flac_dmx_crc16 *)
Crc16Step(crc, byte) ==
  Xor16(flac_dmx_crc16_table[Xor8(crc % 256, byte) + 1], crc \div 256)

(* the loop over the bytes d[i..last], from the value crc, halved as for
   the CRC-8 *)
RECURSIVE Crc16From(_, _, _, _)

Crc16Rest(d, mid, last, left) ==
  IF left < 0 THEN left ELSE Crc16From(d, mid + 1, last, left)

Crc16From(d, i, last, crc) ==
  IF i > last THEN crc
  ELSE IF i = last THEN Crc16Step(crc, d[i])
  ELSE Crc16Rest(d, (i + last) \div 2, last,
                 Crc16From(d, i, (i + last) \div 2, crc))

(* crc16 of the len bytes of d that follow offset base (0-based) *)
flac_dmx_crc16(d, base, len) == Crc16From(d, base + 1, base + len, 0)

(* ------------------------------------------------------------------ *)
(* Frame header decoder                                                *)
(* ------------------------------------------------------------------ *)

flac_dmx_block_sizes ==
  << 0, 192, 576, 1152, 2304, 4608, 0, 0, 256, 512, 1024, 2048, 4096, 8192, 16384, 32768 >>

flac_dmx_samplerates ==
  << 0, 88200, 176400, 192000, 8000, 16000, 22050, 24000, 32000, 44100, 48000, 96000 >>

FLAC_CHANNELS == 8

FLAC_MID_SIDE == 3

(* the "frame/sample number" field, lines 443-454.  res is a u32 that is
   shifted left by 6 for every continuation byte while top, starting at
   bit 6, is shifted left by 5: the k-th test (res & top) reads bit 6-k of
   the field's first byte, and top << 5 is 0 in 32 bits after the test of
   bit 1.  first is that first byte, k the number of continuation bytes read
   so far, p the position of the next byte of the window; the result is the
   position after the field, or 0 when a continuation byte is malformed *)
RECURSIVE ReadFrameNumber(_, _, _, _, _, _)
ReadFrameNumber(buf, base, size, first, k, p) ==
  IF first < 128 \/ k > 5 \/ (first \div Pow2(6 - k)) % 2 = 0 THEN p
  ELSE LET tmp == ByteAt(buf, base + size, base + p) - 128
       IN IF tmp < 0 \/ tmp > 63 THEN 0
          ELSE ReadFrameNumber(buf, base, size, first, k + 1, p + 1)

NoHeader == [ok |-> FALSE, block_size |-> 0, sample_rate |-> 0, channels |-> 0]

(* flac_parse_header on the window of `size' bytes of buf that follows
   offset base; sr is ctx->sample_rate.  ok is the function's result, the
   three other fields are what it stores in *hdr when ok *)
flac_parse_header(sr, buf, base, size) ==
  LET D(i) == ByteAt(buf, base + size, base + i)
      sync == (D(1) * 256 + D(2)) \div 2
      bsc == D(3) \div 16
      src == D(3) % 16
      chc == D(4) \div 16
      bps == (D(4) \div 2) % 8
      res == D(5)
      p1 == ReadFrameNumber(buf, base, size, res, 0, 6)
      block_size == IF bsc = 6 THEN 1 + D(p1)
                    ELSE IF bsc = 7 THEN 1 + D(p1) * 256 + D(p1 + 1)
                    ELSE flac_dmx_block_sizes[bsc + 1]
      p2 == IF bsc = 6 THEN p1 + 1 ELSE IF bsc = 7 THEN p1 + 2 ELSE p1
      sample_rate == IF src = 0 THEN sr
                     ELSE IF src = 12 THEN D(p2)
                     ELSE IF src = 13 THEN D(p2) * 256 + D(p2 + 1)
                     ELSE IF src = 14 THEN 10 * (D(p2) * 256 + D(p2 + 1))
                     ELSE flac_dmx_samplerates[src + 1]
      p3 == IF src = 12 THEN p2 + 1 ELSE IF src \in {13, 14} THEN p2 + 2 ELSE p2
      pos == p3 - 1
      crc == D(p3)
      sub == D(p3 + 1)
      type == (sub \div 2) % 64
  IN IF size < 17 THEN NoHeader
     ELSE IF sync # 32764 THEN NoHeader
     ELSE IF bsc = 0 THEN NoHeader
     ELSE IF src = 15 THEN NoHeader
     ELSE IF chc >= FLAC_CHANNELS + FLAC_MID_SIDE THEN NoHeader
     ELSE IF bps = 3 THEN NoHeader
     ELSE IF D(4) % 2 = 1 THEN NoHeader
     ELSE IF (res \div 64) = 2 \/ res >= 254 THEN NoHeader
     ELSE IF p1 = 0 THEN NoHeader
     ELSE IF crc # flac_dmx_crc8(buf, base, pos) THEN NoHeader
     ELSE IF sub >= 128 THEN NoHeader
     ELSE IF ~(type = 0 \/ type = 1 \/ (type >= 8 /\ type <= 12) \/ type >= 32)
          THEN NoHeader
     ELSE IF p3 + 1 > size THEN NoHeader
     ELSE [ok |-> TRUE, block_size |-> block_size, sample_rate |-> sample_rate,
           channels |-> IF chc < FLAC_CHANNELS THEN chc ELSE 1]

(* ------------------------------------------------------------------ *)
(* Library routines the filter calls                                   *)
(* ------------------------------------------------------------------ *)

(* gf_crc_32: CRC-32/MPEG-2 (polynomial 0x04C11DB7, initial value
   0xFFFFFFFF, most significant bit first, no final inversion) *)
(* a u32 is the pair << upper 16 bits, lower 16 bits >> *)
RECURSIVE Crc32Bits(_, _)
Crc32Bits(crc, n) ==
  LET shifted == << (crc[1] * 2 + crc[2] \div 32768) % 65536, (crc[2] * 2) % 65536 >>
  IN IF n = 0 THEN crc
     ELSE Crc32Bits(IF crc[1] >= 32768
                    THEN << Xor16(shifted[1], 1217), Xor16(shifted[2], 7607) >>
                    ELSE shifted, n - 1)

(* the CRC of each byte value, as in the library's 256-entry table *)
gf_crc_table == [b \in 0..255 |-> Crc32Bits(<< b * 256, 0 >>, 8)]

(* crc = (crc << 8) ^ gf_crc_table[((crc >> 24) ^ byte) & 0xff], e being
   the table's entry *)
Crc32Shift(crc, e) ==
  << Xor16((crc[1] % 256) * 256 + crc[2] \div 256, e[1]),
     Xor16((crc[2] % 256) * 256, e[2]) >>

Crc32Step(crc, byte) == Crc32Shift(crc, gf_crc_table[Xor8(crc[1] \div 256, byte)])

(* the loop over the bytes d[i..last], from the value crc, halved as for
   the frame CRCs *)
RECURSIVE Crc32From(_, _, _, _)

Crc32Rest(d, mid, last, left) ==
  IF left[1] < 0 THEN left ELSE Crc32From(d, mid + 1, last, left)

Crc32From(d, i, last, crc) ==
  IF i > last THEN crc
  ELSE IF i = last THEN Crc32Step(crc, d[i])
  ELSE Crc32Rest(d, (i + last) \div 2, last,
                 Crc32From(d, i, (i + last) \div 2, crc))

gf_crc_32(d) == Crc32From(d, 1, Len(d), << 65535, 65535 >>)

(* gf_timestamp_rescale(value, timescale, new_timescale), taken to return 0
   when timescale is 0 *)
gf_timestamp_rescale(value, timescale, new_timescale) ==
  IF timescale = 0 THEN 0 ELSE (value * new_timescale) \div timescale

(* ------------------------------------------------------------------ *)
(* Metadata parser (magic and metadata block list)                     *)
(* ------------------------------------------------------------------ *)

(* GF_4CC('f','L','a','C') as the four bytes read by gf_bs_read_u32 *)
FlacMagic == << 102, 76, 97, 67 >>

NoInfo == [dsi_end |-> 0, sample_rate |-> 0, nb_channels |-> 0,
           bits_per_sample |-> 0, block_size |-> 0, duration_num |-> << 0, 0 >>]

(* the metadata block loop over the first `size' bytes of buf, from byte
   position p (0-based); info is what STREAMINFO blocks have stored so far.
   The 36-bit total sample count duration.num is kept as the pair
   << upper 12 bits, lower 24 bits >> *)
RECURSIVE ReadBlocks(_, _, _, _)
ReadBlocks(buf, size, p, info) ==
  IF p >= size THEN info
  ELSE LET D(i) == ByteAt(buf, size, p + i)
           last == D(1) >= 128
           type == D(1) % 128
           len == D(2) * 65536 + D(3) * 256 + D(4)
           min_block_size == D(5) * 256 + D(6)
           max_block_size == D(7) * 256 + D(8)
           sample_rate == D(15) * 4096 + D(16) * 16 + (D(17) \div 16)
           got == [dsi_end |-> p + 4 + 34,
                   sample_rate |-> sample_rate,
                   nb_channels |-> 1 + ((D(17) \div 2) % 8),
                   bits_per_sample |-> 1 + ((D(17) % 2) * 16 + (D(18) \div 16)),
                   block_size |-> IF min_block_size = max_block_size
                                  THEN min_block_size ELSE 0,
                   duration_num |-> << (D(18) % 16) * 256 + D(19),
                                       D(20) * 65536 + D(21) * 256 + D(22) >>]
           info2 == IF type = 0 THEN got ELSE info
           p2 == IF type = 0 THEN p + 4 + 34 ELSE p + 4 + len
       IN IF last THEN info2 ELSE ReadBlocks(buf, size, p2, info2)

(* ------------------------------------------------------------------ *)
(* Duration probe and output configuration                             *)
(* ------------------------------------------------------------------ *)

(* flac_dmx_check_dur; srcfile tells whether the input pid carries a file
   path that is not gmem://.  The file opens and is fully cached. *)
flac_dmx_check_dur(c, srcfile) ==
  IF ~c.opid \/ c.timescale # 0 \/ c.file_loaded THEN c
  ELSE IF c.index <= 0 THEN [c EXCEPT !.file_loaded = TRUE]
  ELSE IF ~srcfile THEN [c EXCEPT !.is_file = FALSE, !.file_loaded = TRUE]
  ELSE [c EXCEPT !.is_file = TRUE, !.file_loaded = TRUE]

(* flac_dmx_check_pid: the new context, and whether the function went on
   to set the properties of the output pid *)
flac_dmx_check_pid(c, dsi, srcfile) ==
  LET crc == gf_crc_32(dsi)
      c1 == IF ~c.opid THEN flac_dmx_check_dur([c EXCEPT !.opid = TRUE], srcfile)
            ELSE c
  IN IF c1.dsi_crc = crc /\ ~c1.copy_props THEN [c |-> c1, configured |-> FALSE]
     ELSE [c |-> [c1 EXCEPT !.dsi_crc = crc, !.copy_props = FALSE],
           configured |-> TRUE]

(* ------------------------------------------------------------------ *)
(* Frame synchronizer: the scan for the next frame boundary            *)
(* ------------------------------------------------------------------ *)

(* GF_FILTER_NO_TS and GF_FILTER_NO_BO *)
NoTs == -1

NoBo == -1

(* memchr(start + cur, 0xFF, remain - cur): the offset from start of the
   first 0xFF at or after cur, or remain when there is none *)
FirstFF(buf, start, remain, cur) ==
  LET ffs == {i \in cur..(remain - 1) : buf[start + i + 1] = 255}
  IN IF ffs = {} THEN remain ELSE CHOOSE i \in ffs : \A j \in ffs : i <= j

(* the footer test of lines 627-631: the CRC16 of the next_frame-2 bytes at
   start against the two bytes before the candidate *)
FooterCrcOk(buf, start, next_frame) ==
  flac_dmx_crc16(buf, start, next_frame - 2)
    = buf[start + next_frame] * 256 + buf[start + next_frame - 1]

(* a faulty policy: one unchanged parameter is enough to skip the check *)
AcceptCandidate_EitherParameter(c, h, buf, start, next_frame) ==
  IF ~c.initialized THEN [accepted |-> TRUE, checked |-> FALSE]
  ELSE IF ~c.docrc /\ (h.sample_rate = c.sample_rate \/ h.channels = c.ch_layout)
  THEN [accepted |-> TRUE, checked |-> FALSE]
  ELSE [accepted |-> FooterCrcOk(buf, start, next_frame), checked |-> TRUE]

(* lines 620-632: whether a candidate whose header decoded to h is taken as
   the boundary, and whether the footer CRC was computed to decide it *)
AcceptCandidate(c, h, buf, start, next_frame) ==
  IF ~c.initialized THEN [accepted |-> TRUE, checked |-> FALSE]
  ELSE IF ~c.docrc /\ h.sample_rate = c.sample_rate /\ h.channels = c.ch_layout
  THEN [accepted |-> TRUE, checked |-> FALSE]
  ELSE [accepted |-> FooterCrcOk(buf, start, next_frame), checked |-> TRUE]

(* what the scan did with one candidate whose header decoded: where the
   frame starts (from), the candidate's offset from it (at), the decoded
   header, the context's parameters at that time, whether the footer before
   the candidate matches, the decision, and the offset cur at which the scan
   went on (0 when the candidate was accepted) *)
Decision(c, h, start, nf, d, cur) ==
  [from |-> start, at |-> nf, hdr |-> h, docrc |-> c.docrc,
   initialized |-> c.initialized, sample_rate |-> c.sample_rate,
   ch_layout |-> c.ch_layout,
   footer_ok |-> FooterCrcOk(c.flac_buffer, start, nf),
   accepted |-> d.accepted, checked |-> d.checked, resumed |-> cur]

(* the inner while of lines 608-640.  S holds the context c, the frame
   start and the bytes that remain from it, the local FLACHeader hdr with
   hinit telling whether it was ever written, and the decisions so far; cur
   is cur_buf - start.  In the result found is hdr_start != NULL *)
RECURSIVE FindNext(_, _)

NotFound(S) ==
  [found |-> FALSE, next_frame |-> 0, hdr |-> S.hdr, hinit |-> S.hinit,
   scan |-> S.scan]

(* lines 635-639: the candidate at nf is passed over and the scan goes on
   at cur *)
Rejected(S, nf, h, d, cur) ==
  FindNext([S EXCEPT !.hdr = h, !.hinit = TRUE,
                     !.scan = Append(S.scan, Decision(S.c, h, S.start, nf, d, cur))],
           cur)

(* lines 620-639: the candidate at nf decoded to h and d was decided *)
Decided(S, nf, h, d) ==
  IF d.accepted
  THEN [found |-> TRUE, next_frame |-> nf, hdr |-> h, hinit |-> TRUE,
        scan |-> Append(S.scan, Decision(S.c, h, S.start, nf, d, 0))]
  ELSE Rejected(S, nf, h, d, nf + 1)

(* line 619: the header at the candidate was parsed into h *)
Parsed(S, nf, h) ==
  IF h.ok
  THEN Decided(S, nf, h, AcceptCandidate(S.c, h, S.c.flac_buffer, S.start, nf))
  ELSE FindNext(S, nf + 1)

(* lines 611-618: memchr returned the offset nf (remain when NULL) *)
Candidate(S, cur, nf) ==
  IF S.remain - cur <= 0 \/ nf = S.remain \/ nf + 17 >= S.remain THEN NotFound(S)
  ELSE IF (S.c.flac_buffer[S.start + nf + 2] \div 4) = 62
  THEN Parsed(S, nf, flac_parse_header(S.c.sample_rate, S.c.flac_buffer,
                                       S.start + nf, S.remain - nf))
  ELSE FindNext(S, nf + 1)

FindNext(S, cur) ==
  Candidate(S, cur, FirstFF(S.c.flac_buffer, S.start, S.remain, cur))

(* ------------------------------------------------------------------ *)
(* flac_dmx_process                                                    *)
(* ------------------------------------------------------------------ *)

(* a clock that rounds the rescaled increment to the nearest integer *)
flac_dmx_update_cts_Rounds(c, nb_samp) ==
  IF c.timescale # 0
  THEN [c EXCEPT !.cts = c.cts + ((2 * nb_samp * c.timescale + c.sample_rate)
                                    \div (2 * c.sample_rate))]
  ELSE [c EXCEPT !.cts = c.cts + nb_samp]

(* flac_dmx_update_cts; the division is undefined when sample_rate is 0
   (FrameSent tests that first) *)
flac_dmx_update_cts(c, nb_samp) ==
  IF c.timescale # 0
  THEN [c EXCEPT !.cts = c.cts + ((nb_samp * c.timescale) \div c.sample_rate)]
  ELSE [c EXCEPT !.cts = c.cts + nb_samp]

(* duration of an emitted frame, lines 751-755 *)
FrameDuration(c, nb_samp) ==
  IF c.timescale = 0 \/ c.timescale = c.sample_rate THEN nb_samp
  ELSE gf_timestamp_rescale(nb_samp, c.sample_rate, c.timescale)

(* the resync test of line 708 on the region at start *)
NotSynchronized(buf, start) ==
  buf[start + 1] # 255 /\ (buf[start + 2] \div 4) # 62

(* the two asserts of lines 766-767 *)
SyncAsserts(buf, start) ==
  buf[start + 1] = 255 /\ (buf[start + 2] \div 4) = 62

(* a faulty seek test: the first frame met ends the seek *)
SeekCheck_FirstFrame(c, nb_samp) ==
  IF c.in_seek THEN [c EXCEPT !.in_seek = FALSE] ELSE c

(* lines 732-738 *)
SeekCheck(c, nb_samp) ==
  IF c.in_seek /\ c.cts + nb_samp >= c.start_range * c.sample_rate
  THEN [c EXCEPT !.in_seek = FALSE] ELSE c

(* The frame loop works on L, the local state of the invocation: the
   context c, start and remain, the local FLACHeader hdr (hinit: whether it
   was written), the local cts, the packets sent and configurations set,
   the allocations made, and what ends the loop (brk, ret).  E holds the
   fixed inputs of the pass. *)

(* lines 653-660 and 690-697: the stream is refused *)
InitRefused(L, E) ==
  [L EXCEPT !.c = [L.c EXCEPT !.in_error = TRUE, !.flac_buffer = << >>],
            !.drop = E.has_pck,
            !.ret = "GF_NON_COMPLIANT_BITSTREAM"]

(* a faulty initialization: the frame loop goes on when the stream is not
   playing *)
InitDone_GoesOn(L, nf, hdr, ub, chk) ==
  [L EXCEPT !.c = [chk.c EXCEPT !.initialized = TRUE],
            !.ncfg = L.ncfg + (IF chk.configured THEN 1 ELSE 0),
            !.hdr = hdr, !.hinit = TRUE,
            !.ub = L.ub \/ ub,
            !.start = L.start + nf,
            !.remain = L.remain - nf]

(* lines 698-704, chk being the result of flac_dmx_check_pid *)
InitDone(L, nf, hdr, ub, chk) ==
  [L EXCEPT !.c = [chk.c EXCEPT !.initialized = TRUE],
            !.ncfg = L.ncfg + (IF chk.configured THEN 1 ELSE 0),
            !.hdr = hdr, !.hinit = TRUE,
            !.ub = L.ub \/ ub,
            !.start = L.start + nf,
            !.remain = L.remain - nf,
            !.brk = ~L.c.is_playing]

(* lines 661-699: info is what the metadata blocks held, hdr the local
   FLACHeader.  The decoder configuration is the bytes from offset 4 to
   dsi_end, which may lie past the bytes read *)
InitParsed(L, E, nf, hdr, ub, info) ==
  IF info.dsi_end = 0 THEN InitRefused(L, E)
  ELSE InitDone(L, nf, hdr, ub \/ info.dsi_end > Len(L.c.flac_buffer),
                flac_dmx_check_pid(
                  [L.c EXCEPT !.sample_rate = info.sample_rate,
                              !.nb_channels = info.nb_channels,
                              !.bits_per_sample = info.bits_per_sample,
                              !.block_size = info.block_size,
                              !.duration_num = info.duration_num,
                              !.ch_layout = hdr.channels],
                  Slice(L.c.flac_buffer, 5,
                        IF info.dsi_end <= Len(L.c.flac_buffer) THEN info.dsi_end
                        ELSE Len(L.c.flac_buffer)),
                  E.srcfile))

(* lines 647-705: stream initialization on the first accepted candidate,
   or on the whole reservoir in the final flush.  nf is next_frame and f the
   scan's result; the local hdr is E.junk when nothing ever wrote it *)
InitStream(L, E, nf, f) ==
  IF << ByteAt(L.c.flac_buffer, nf, 1), ByteAt(L.c.flac_buffer, nf, 2),
        ByteAt(L.c.flac_buffer, nf, 3), ByteAt(L.c.flac_buffer, nf, 4) >> # FlacMagic
  THEN InitRefused(L, E)
  ELSE InitParsed(L, E, nf, IF f.hinit THEN f.hdr ELSE E.junk, ~f.hinit,
                  ReadBlocks(L.c.flac_buffer, nf, 4, NoInfo))

(* line 717: the frame header is decoded again on the frame's own nf bytes;
   when that fails the local hdr keeps what the last successful decode
   stored, and is uninitialized when nothing ever did *)
FrameHdr(L, E, nf, f) ==
  LET h == flac_parse_header(L.c.sample_rate, L.c.flac_buffer, L.start, nf)
  IN IF h.ok THEN [hdr |-> h, ub |-> FALSE]
     ELSE IF f.hinit THEN [hdr |-> f.hdr, ub |-> FALSE]
     ELSE [hdr |-> E.junk, ub |-> TRUE]

(* lines 716-743: the context when the frame is about to be sent *)
FrameCtx(c, hdr, setcts, cts) ==
  LET c2 == SeekCheck([c EXCEPT !.is_sync = TRUE,
                                !.sample_rate = hdr.sample_rate,
                                !.ch_layout = hdr.channels], hdr.block_size)
  IN IF setcts THEN [c2 EXCEPT !.cts = cts] ELSE c2

(* the packet of lines 746-762 *)
FramePacket(c, buf, start, nf, nb_samp) ==
  [data |-> SubSeq(buf, start + 1, start + nf),
   cts |-> c.cts,
   dur |-> FrameDuration(c, nb_samp),
   bo |-> c.byte_offset,
   sr |-> c.sample_rate]

(* lines 745-771 with c the context of FrameCtx and L1 the local state.
   With a timescale and a sample rate of 0, line 298 divides by zero: the
   division traps, or it yields 0 and the clock stays *)
FrameSent(L1, E, nf, hdr, c) ==
  IF ~c.in_seek /\ L1.nalloc + 1 = E.fail_at
  THEN [L1 EXCEPT !.c = c, !.ret = "GF_OUT_OF_MEM", !.nalloc = L1.nalloc + 1]
  ELSE IF c.timescale # 0 /\ c.sample_rate = 0 /\ E.div0 = "trap"
  THEN [L1 EXCEPT !.c = c, !.ret = "SIGFPE",
                  !.sent = IF c.in_seek THEN L1.sent
                           ELSE Append(L1.sent, FramePacket(c, L1.c.flac_buffer,
                                                L1.start, nf, hdr.block_size)),
                  !.nalloc = IF c.in_seek THEN L1.nalloc ELSE L1.nalloc + 1]
  ELSE IF c.timescale # 0 /\ c.sample_rate = 0
  THEN [L1 EXCEPT !.c = c,
                  !.sent = IF c.in_seek THEN L1.sent
                           ELSE Append(L1.sent, FramePacket(c, L1.c.flac_buffer,
                                                L1.start, nf, hdr.block_size)),
                  !.nalloc = IF c.in_seek THEN L1.nalloc ELSE L1.nalloc + 1,
                  !.asserts = L1.asserts /\ SyncAsserts(L1.c.flac_buffer, L1.start),
                  !.start = L1.start + nf,
                  !.remain = L1.remain - nf]
  ELSE [L1 EXCEPT !.c = flac_dmx_update_cts(c, hdr.block_size),
                  !.sent = IF c.in_seek THEN L1.sent
                           ELSE Append(L1.sent, FramePacket(c, L1.c.flac_buffer,
                                                L1.start, nf, hdr.block_size)),
                  !.nalloc = IF c.in_seek THEN L1.nalloc ELSE L1.nalloc + 1,
                  !.asserts = L1.asserts /\ SyncAsserts(L1.c.flac_buffer, L1.start),
                  !.start = L1.start + nf,
                  !.remain = L1.remain - nf]

(* lines 716-771 once the header is settled: p is the result of FrameHdr,
   setcts the test of line 740 *)
FrameParsed(L, E, nf, p, setcts, c) ==
  FrameSent([L EXCEPT !.cts = IF setcts THEN NoTs ELSE L.cts,
                      !.hdr = p.hdr, !.hinit = TRUE, !.ub = L.ub \/ p.ub,
                      !.frames = Append(L.frames, [size |-> nf, cts |-> c.cts,
                                                   sent |-> ~c.in_seek,
                                                   start |-> L.start,
                                                   held |-> Len(L.c.flac_buffer),
                                                   bo |-> c.byte_offset])],
            E, nf, p.hdr, c)

FrameTimed(L, E, nf, p, setcts) ==
  FrameParsed(L, E, nf, p, setcts, FrameCtx(L.c, p.hdr, setcts, L.cts))

(* lines 716-771: one frame of nf bytes at start is consumed *)
ConsumeFrame(L, E, nf, f) ==
  FrameTimed(L, E, nf, FrameHdr(L, E, nf, f),
             L.c.timescale # 0 /\ E.prev_pck_size = 0 /\ L.cts # NoTs)

(* the while (remain > 20) loop of lines 599-773 *)
RECURSIVE FrameLoop(_, _)

(* lines 641-772: the scan returned f *)
FrameStep(L, E, f) ==
  IF ~f.found
  THEN [L EXCEPT !.hdr = f.hdr, !.hinit = f.hinit, !.scan = f.scan, !.brk = TRUE]
  ELSE IF ~L.c.initialized
  THEN FrameLoop(InitStream([L EXCEPT !.scan = f.scan], E, f.next_frame, f), E)
  ELSE IF NotSynchronized(L.c.flac_buffer, L.start)
  THEN FrameLoop([L EXCEPT !.c = [L.c EXCEPT !.is_sync = FALSE],
                           !.hdr = f.hdr, !.hinit = f.hinit, !.scan = f.scan,
                           !.start = L.start + f.next_frame,
                           !.remain = L.remain - f.next_frame], E)
  ELSE FrameLoop(ConsumeFrame([L EXCEPT !.scan = f.scan], E, f.next_frame, f), E)

FrameLoop(L, E) ==
  IF L.remain <= 20 \/ L.brk \/ L.ret # "" THEN L
  ELSE FrameStep(L, E,
         IF E.final_flush
         THEN [found |-> TRUE, next_frame |-> L.remain,
               hdr |-> L.hdr, hinit |-> L.hinit, scan |-> L.scan]
         ELSE FindNext([c |-> L.c, start |-> L.start, remain |-> L.remain,
                        hdr |-> L.hdr, hinit |-> L.hinit, scan |-> L.scan], 2))

(* no packet at the head of the input pid *)
NoPck == [some |-> FALSE, data |-> << >>, cts |-> NoTs, bo |-> NoBo]

(* lines 557-567: the byte offset of the reservoir's first byte *)
TrackByteOffset(c, pck) ==
  IF c.byte_offset = NoBo THEN c
  ELSE IF Len(c.flac_buffer) = 0 THEN [c EXCEPT !.byte_offset = pck.bo]
  ELSE IF c.byte_offset + Len(c.flac_buffer) # pck.bo
  THEN [c EXCEPT !.byte_offset =
          IF pck.bo # NoBo /\ pck.bo > Len(c.flac_buffer)
          THEN pck.bo - Len(c.flac_buffer) ELSE NoBo]
  ELSE c

(* lines 569-574: the packet's bytes are appended to the reservoir *)
AppendPacket(c, pck) ==
  [c EXCEPT !.flac_buffer = c.flac_buffer \o pck.data,
            !.flac_buffer_alloc =
               IF Len(c.flac_buffer) + Len(pck.data) > c.flac_buffer_alloc
               THEN Len(c.flac_buffer) + Len(pck.data)
               ELSE c.flac_buffer_alloc]

(* result of one pass when it returns before the frame loop *)
Returned(c, o, ret) ==
  [c |-> c, sent |-> o.sent, ncfg |-> o.ncfg, eos |-> o.eos, drop |-> FALSE,
   ret |-> ret, restart |-> FALSE, ub |-> FALSE, asserts |-> TRUE,
   scan |-> << >>, frames |-> << >>]

(* lines 775-786: the frame loop ended in L *)
PassEnd(o, pck, L) ==
  IF L.ret # ""
  THEN [c |-> L.c, sent |-> L.sent, ncfg |-> L.ncfg, eos |-> o.eos,
        drop |-> L.drop, ret |-> L.ret, restart |-> FALSE,
        ub |-> L.ub, asserts |-> L.asserts, scan |-> L.scan, frames |-> L.frames]
  ELSE IF ~pck.some
  THEN [c |-> [L.c EXCEPT !.flac_buffer = << >>],
        sent |-> L.sent, ncfg |-> L.ncfg, eos |-> o.eos,
        drop |-> FALSE, ret |-> "", restart |-> TRUE,
        ub |-> L.ub, asserts |-> L.asserts, scan |-> L.scan, frames |-> L.frames]
  ELSE [c |-> [L.c EXCEPT !.flac_buffer = Slice(L.c.flac_buffer, L.start + 1,
                                                L.start + L.remain)],
        sent |-> L.sent, ncfg |-> L.ncfg, eos |-> o.eos,
        drop |-> TRUE, ret |-> "GF_OK", restart |-> FALSE,
        ub |-> L.ub, asserts |-> L.asserts, scan |-> L.scan, frames |-> L.frames]

(* lines 577-598: c is the context with the packet appended, cts the local
   cts, prev_pck_size the local of line 553 as line 587 leaves it *)
PassLoop(c, o, pck, X, cts, prev_pck_size) ==
  PassEnd(o, pck,
    FrameLoop(
      [c |-> [(IF c.cts = 0 /\ cts # NoTs THEN [c EXCEPT !.cts = cts] ELSE c)
                EXCEPT !.resume_from = 0],
       start |-> IF c.resume_from # 0 THEN c.resume_from - 1 ELSE 0,
       remain |-> Len(c.flac_buffer)
                  - (IF c.resume_from # 0 THEN c.resume_from - 1 ELSE 0),
       hdr |-> X.junk, hinit |-> FALSE, cts |-> cts,
       sent |-> o.sent, ncfg |-> o.ncfg, nalloc |-> 0,
       ub |-> FALSE, asserts |-> TRUE, drop |-> FALSE,
       brk |-> FALSE, ret |-> "", scan |-> << >>, frames |-> << >>],
      [has_pck |-> pck.some, final_flush |-> ~pck.some,
       prev_pck_size |-> prev_pck_size, junk |-> X.junk,
       fail_at |-> X.fail_at, srcfile |-> X.srcfile, div0 |-> X.div0]))

(* lines 553-588: c is the context at line 553 *)
PassAppend(c, o, pck, X) ==
  IF pck.some /\ c.resume_from = 0
     /\ Len(c.flac_buffer) + Len(pck.data) > c.flac_buffer_alloc
     /\ X.realloc_fails
  THEN Returned([TrackByteOffset(c, pck) EXCEPT
                   !.flac_buffer_alloc = Len(c.flac_buffer) + Len(pck.data)],
                o, "SIGSEGV")
  ELSE PassLoop(IF pck.some /\ c.resume_from = 0
                THEN AppendPacket(TrackByteOffset(c, pck), pck) ELSE c,
                o, pck, X,
                IF c.timescale # 0 /\ pck.some THEN pck.cts ELSE NoTs,
                IF c.timescale # 0 /\ pck.some /\ pck.cts # NoTs
                THEN Len(c.flac_buffer) ELSE 0)

(* a faulty end of input: GF_EOS is returned without the end of stream
   being set on the output *)
PassInput_NoEos(c, o, pck, is_eos, X) ==
  IF c.opid /\ ~c.is_playing THEN Returned(c, o, "GF_OK")
  ELSE IF ~pck.some /\ ~is_eos THEN Returned(c, o, "GF_OK")
  ELSE IF ~pck.some /\ Len(c.flac_buffer) = 0
  THEN Returned([c EXCEPT !.src_pck = FALSE], o, "GF_EOS")
  ELSE PassAppend(c, o, pck, X)

(* lines 534-551: c is the context after flac_dmx_check_dur *)
PassInput(c, o, pck, is_eos, X) ==
  IF c.opid /\ ~c.is_playing THEN Returned(c, o, "GF_OK")
  ELSE IF ~pck.some /\ ~is_eos THEN Returned(c, o, "GF_OK")
  ELSE IF ~pck.some /\ Len(c.flac_buffer) = 0
  THEN Returned([c EXCEPT !.src_pck = FALSE],
                [o EXCEPT !.eos = o.eos \/ c.opid], "GF_EOS")
  ELSE PassAppend(c, o, pck, X)

(* a faulty entry: the error state is not tested *)
ProcessPass_IgnoresError(c, o, pck, is_eos, X) ==
  PassInput(IF c.duration_num = << 0, 0 >>
            THEN flac_dmx_check_dur(c, X.srcfile) ELSE c,
            o, pck, is_eos, X)

(* one pass of flac_dmx_process from the label restart to a return or to
   the goto.  c is the context, o the output pid (packets sent, full
   configurations set, end of stream), pck the packet gf_filter_pid_get_packet
   returns, is_eos what gf_filter_pid_is_eos returns; X holds what the
   environment decides during the call: srcfile, junk (the content of the
   uninitialized FLACHeader), fail_at (which gf_filter_pck_new_alloc of the
   call returns NULL, 0 for none), realloc_fails (gf_realloc returns NULL,
   and the memcpy of line 573 writes through it) *)
ProcessPass(c, o, pck, is_eos, X) ==
  IF c.in_error THEN Returned(c, o, "GF_NON_COMPLIANT_BITSTREAM")
  ELSE PassInput(IF c.duration_num = << 0, 0 >>
                 THEN flac_dmx_check_dur(c, X.srcfile) ELSE c,
                 o, pck, is_eos, X)

(* flac_dmx_process: passes are run until one returns; npass counts them
   and acc gathers what they met *)
RECURSIVE ProcessFrom(_, _, _, _, _, _, _)

Gathered(acc, r) ==
  [ub |-> acc.ub \/ r.ub, asserts |-> acc.asserts /\ r.asserts,
   scan |-> acc.scan \o r.scan, frames |-> acc.frames \o r.frames]

(* the pass returned r *)
PassDone(o, pck, is_eos, X, npass, acc, r) ==
  IF r.restart
  THEN ProcessFrom(r.c, [o EXCEPT !.sent = r.sent, !.ncfg = r.ncfg], pck, is_eos,
                   [X EXCEPT !.fail_at = 0], npass + 1, acc)
  ELSE [c |-> r.c, sent |-> r.sent, ncfg |-> r.ncfg, eos |-> r.eos,
        drop |-> r.drop, ret |-> r.ret, npass |-> npass,
        ub |-> acc.ub, asserts |-> acc.asserts, scan |-> acc.scan,
        frames |-> acc.frames]

PassGathered(o, pck, is_eos, X, npass, acc, r) ==
  PassDone(o, pck, is_eos, X, npass, Gathered(acc, r), r)

ProcessFrom(c, o, pck, is_eos, X, npass, acc) ==
  PassGathered(o, pck, is_eos, X, npass, acc, ProcessPass(c, o, pck, is_eos, X))

(* the result holds, besides the new context and output: whether the input
   packet was dropped, the value returned, the number of passes, whether
   undefined behaviour was met and the asserts held, the decisions of the
   scan, and the frames consumed (size, cts, whether sent, the offset start
   of the frame in the reservoir of held bytes, the byte offset it carries) *)
flac_dmx_process(c, o, pck, is_eos, X) ==
  ProcessFrom(c, o, pck, is_eos, X, 1,
              [ub |-> FALSE, asserts |-> TRUE, scan |-> << >>, frames |-> << >>])

(* ------------------------------------------------------------------ *)
(* flac_dmx_process_event                                              *)
(* ------------------------------------------------------------------ *)

(* lines 250-258: the scan of the seek index from entry i (1-based here,
   the C loop starts at its second entry); the result is the context with
   cts and file_pos taken from the entry before the first one whose
   duration exceeds start_range *)
RECURSIVE SeekIndex(_, _)
SeekIndex(c, i) ==
  IF i > Len(c.indexes) THEN c
  ELSE IF c.indexes[i].duration > c.start_range
  THEN [c EXCEPT !.cts = c.indexes[i - 1].duration * c.sample_rate,
                 !.file_pos = c.indexes[i - 1].pos]
  ELSE SeekIndex(c, i + 1)

(* a faulty play: the first play of a file at position 0 also empties the
   reservoir and sends a seek *)
PlayEvent_AlwaysSeeks(c, start_range, srcfile) ==
  LET c0 == [c EXCEPT !.is_playing = TRUE]
      cleared == [c0 EXCEPT !.flac_buffer = << >>, !.resume_from = 0]
      c1 == flac_dmx_check_dur(c0, srcfile)
      c2 == [c1 EXCEPT !.start_range = start_range, !.in_seek = TRUE,
                       !.file_pos = 0]
      c3 == IF start_range # 0 THEN SeekIndex(c2, 2) ELSE c2
      c4 == [c3 EXCEPT !.initial_play_done = TRUE]
  IN IF ~c.is_file
     THEN [c |-> [(IF start_range # 0 \/ c.initial_play_done THEN cleared ELSE c0)
                    EXCEPT !.initial_play_done = TRUE],
           seek |-> FALSE, cancel |-> FALSE]
     ELSE [c |-> [c4 EXCEPT !.flac_buffer = << >>, !.resume_from = 0],
           seek |-> TRUE, cancel |-> TRUE]

(* GF_FEVT_PLAY, lines 233-273.  The result holds the new context and
   whether a GF_FEVT_SOURCE_SEEK was sent upstream *)
PlayEvent(c, start_range, srcfile) ==
  LET c0 == [c EXCEPT !.is_playing = TRUE]
      cleared == [c0 EXCEPT !.flac_buffer = << >>, !.resume_from = 0]
      c1 == flac_dmx_check_dur(c0, srcfile)
      c2 == [c1 EXCEPT !.start_range = start_range, !.in_seek = TRUE,
                       !.file_pos = 0]
      c3 == IF start_range # 0 THEN SeekIndex(c2, 2) ELSE c2
      c4 == [c3 EXCEPT !.initial_play_done = TRUE]
  IN IF ~c.is_file
     THEN [c |-> [(IF start_range # 0 \/ c.initial_play_done THEN cleared ELSE c0)
                    EXCEPT !.initial_play_done = TRUE],
           seek |-> FALSE, cancel |-> FALSE]
     ELSE IF ~c.initial_play_done /\ c3.file_pos = 0
     THEN [c |-> c4, seek |-> FALSE, cancel |-> TRUE]
     ELSE [c |-> [c4 EXCEPT !.flac_buffer = << >>, !.resume_from = 0],
           seek |-> TRUE, cancel |-> TRUE]

(* a faulty stop: the stream has to be initialized again *)
StopEvent_Reinitializes(c) ==
  [c EXCEPT !.is_playing = FALSE, !.src_pck = FALSE, !.cts = 0,
            !.initialized = FALSE]

(* a faulty stop: the clock is not reset *)
StopEvent_KeepsClock(c) ==
  [c EXCEPT !.is_playing = FALSE, !.src_pck = FALSE]

(* GF_FEVT_STOP, lines 275-281 *)
StopEvent(c) ==
  [c EXCEPT !.is_playing = FALSE, !.src_pck = FALSE, !.cts = 0]

(* ------------------------------------------------------------------ *)
(* Input streams                                                       *)
(* ------------------------------------------------------------------ *)

WithCrc8(h) == Append(h, flac_dmx_crc8(h, 0, Len(h)))

WithCrc16(f) ==
  LET crc == flac_dmx_crc16(f, 0, Len(f)) IN f \o << crc % 256, crc \div 256 >>

Zeros(n) == [i \in 1..n |-> 0]

(* n bytes: a subframe header of 0 (constant subframe), then the value v *)
Payload(n, v) == [i \in 1..n |-> IF i = 1 THEN 0 ELSE v]

(* a frame header: sync code, fixed block size strategy, block size code
   bsc, sample rate code rate, channel assignment chc, 16 bits per sample,
   frame number num (< 128), CRC8 *)
FrameHeader(bsc, rate, chc, num) ==
  WithCrc8(<< 255, 248, bsc * 16 + rate, chc * 16 + 8, num >>)

(* a frame: header, body, CRC16 *)
FrameWith(bsc, rate, chc, num, body) ==
  WithCrc16(FrameHeader(bsc, rate, chc, num) \o body)

(* a frame of len bytes.  With len = 14 and v = 0 this is a whole stereo
   frame of digital silence: two constant subframes of 3 bytes *)
Frame(bsc, rate, chc, num, len, v) ==
  FrameWith(bsc, rate, chc, num, Payload(len - 8, v))

(* a metadata block *)
Block(is_last, type, body) ==
  << (IF is_last THEN 128 ELSE 0) + type, 0, 0, Len(body) >> \o body

(* the first 18 bytes of a STREAMINFO body: fixed block size bs, sample
   rate sr, 2 channels, 16 bits per sample, unknown total sample count *)
StreamInfo(bs, sr) ==
  << bs \div 256, bs % 256, bs \div 256, bs % 256, 0, 0, 0, 0, 0, 0,
     sr \div 4096, (sr \div 16) % 256, (sr % 16) * 16 + 2 + 0, 240, 0, 0, 0, 0 >>

RECURSIVE Concat(_)
Concat(ss) == IF ss = << >> THEN << >> ELSE Head(ss) \o Concat(Tail(ss))

RECURSIVE SumSeq(_)
SumSeq(s) == IF s = << >> THEN 0 ELSE Head(s) + SumSeq(Tail(s))

(* magic and a last-flagged STREAMINFO (4096-sample blocks, 8000 Hz) whose
   16 checksum bytes are md5 *)
HeaderWith(md5) == FlacMagic \o Block(TRUE, 0, StreamInfo(4096, 8000) \o md5)

Header == HeaderWith(Zeros(16))

(* the same, with the last 4 checksum bytes chosen so that gf_crc_32 of the
   STREAMINFO block (header and body) is 0 *)
HeaderZeroCrc ==
  LET crc == gf_crc_32(SubSeq(Block(TRUE, 0, StreamInfo(4096, 8000) \o Zeros(16)),
                              1, 34))
  IN HeaderWith(Zeros(12) \o << crc[1] \div 256, crc[1] % 256,
                               crc[2] \div 256, crc[2] % 256 >>)

(* an input: the metadata, then frames; lens and bss are the byte length and
   the block size (samples) of each frame, cut the number of bytes missing at
   the end of the last frame *)
Input(meta, frames, bss, cut) ==
  LET all == meta \o Concat(frames)
  IN [bytes |-> SubSeq(all, 1, Len(all) - cut),
      first |-> Len(meta),
      lens |-> [i \in 1..Len(frames) |->
                  Len(frames[i]) - (IF i = Len(frames) THEN cut ELSE 0)],
      bss |-> bss,
      cut |-> cut]

(* block sizes of the frames of every stream below: block size codes 12,
   12 and 4 *)
BlockSizes == << 4096, 4096, 2304 >>

(* three frames of 24, 22 and 26 bytes at 8000 Hz (sample rate code 4) *)
StreamPlain ==
  Input(Header, << Frame(12, 4, 1, 0, 24, 1), Frame(12, 4, 1, 1, 22, 2),
                   Frame(4, 4, 1, 2, 26, 3) >>, BlockSizes, 0)

(* the last frame has 19 bytes *)
StreamShortLast ==
  Input(Header, << Frame(12, 4, 1, 0, 24, 1), Frame(12, 4, 1, 1, 22, 2),
                   Frame(4, 4, 1, 2, 19, 3) >>, BlockSizes, 0)

(* the second frame is 14 bytes of digital silence *)
StreamShortMid ==
  Input(Header, << Frame(12, 4, 1, 0, 24, 1), Frame(12, 4, 1, 1, 14, 0),
                   Frame(4, 4, 1, 2, 26, 3) >>, BlockSizes, 0)

(* the second frame changes the sample rate to 16000 Hz (code 5) *)
StreamRateChange ==
  Input(Header, << Frame(12, 4, 1, 0, 24, 1), Frame(12, 5, 1, 1, 22, 2),
                   Frame(4, 5, 1, 2, 26, 3) >>, BlockSizes, 0)

(* the payload of the first frame holds the bytes of a frame header that
   announces 16000 Hz *)
StreamFalseSync ==
  Input(Header, << FrameWith(12, 4, 1, 0, << 0, 1 >> \o FrameHeader(12, 5, 1, 9)
                                          \o << 0, 1, 1, 1, 1, 1, 1, 1, 1, 1, 1 >>),
                   Frame(12, 4, 1, 1, 22, 2), Frame(4, 4, 1, 2, 26, 3) >>,
        BlockSizes, 0)

(* the payload of the first frame holds the bytes of a frame header that
   announces the parameters of the stream, 8000 Hz and 2 channels *)
StreamFalseFrame ==
  Input(Header, << FrameWith(12, 4, 1, 0, << 0, 1 >> \o FrameHeader(12, 4, 1, 9)
                                          \o << 0, 1, 1, 1, 1, 1, 1, 1, 1, 1, 1 >>),
                   Frame(12, 4, 1, 1, 22, 2), Frame(4, 4, 1, 2, 26, 3) >>,
        BlockSizes, 0)

(* the payload of the second frame holds, at stream offsets 80 and 81, a
   byte that is not 0xFF followed by 0xF8 *)
StreamStrayF8 ==
  Input(Header, << Frame(12, 4, 1, 0, 24, 1),
                   FrameWith(12, 4, 1, 1,
                             << 0, 2, 2, 2, 2, 2, 2, 2, 1, 248, 2, 2, 2, 2 >>),
                   Frame(4, 4, 1, 2, 26, 3) >>, BlockSizes, 0)

(* StreamPlain with the checksum bytes that make the CRC32 of STREAMINFO 0 *)
StreamZeroCrc ==
  Input(HeaderZeroCrc, << Frame(12, 4, 1, 0, 24, 1), Frame(12, 4, 1, 1, 22, 2),
                          Frame(4, 4, 1, 2, 26, 3) >>, BlockSizes, 0)

(* StreamPlain cut in the middle of its last frame *)
StreamTruncated ==
  Input(Header, << Frame(12, 4, 1, 0, 24, 1), Frame(12, 4, 1, 1, 22, 2),
                   Frame(4, 4, 1, 2, 26, 3) >>, BlockSizes, 5)

(* the magic is wrong *)
StreamBadMagic ==
  Input(<< 102, 76, 97, 99 >> \o Block(TRUE, 0, StreamInfo(4096, 8000) \o Zeros(16)),
        << Frame(12, 4, 1, 0, 24, 1), Frame(12, 4, 1, 1, 22, 2) >>,
        << 4096, 4096 >>, 0)

(* no STREAMINFO among the metadata blocks *)
StreamNoInfo ==
  Input(FlacMagic \o Block(TRUE, 1, Zeros(2)),
        << Frame(12, 4, 1, 0, 24, 1), Frame(12, 4, 1, 1, 22, 2) >>,
        << 4096, 4096 >>, 0)

(* a frame header with sample rate code 0xC and the rate, in one byte,
   after the frame number *)
FrameHeaderRate(bsc, chc, num, rate) ==
  WithCrc8(<< 255, 248, bsc * 16 + 12, chc * 16 + 8, num, rate >>)

(* STREAMINFO announces a sample rate of 0 and the frames inherit it
   (sample rate code 0) *)
StreamZeroRate ==
  Input(FlacMagic \o Block(TRUE, 0, StreamInfo(4096, 0) \o Zeros(16)),
        << Frame(12, 0, 1, 0, 24, 1), Frame(12, 0, 1, 1, 22, 2),
           Frame(4, 0, 1, 2, 26, 3) >>, BlockSizes, 0)

(* the second and the third frame announce a sample rate of 0 in the byte
   that follows sample rate code 0xC *)
StreamRateZero ==
  Input(Header,
        << Frame(12, 4, 1, 0, 24, 1),
           WithCrc16(FrameHeaderRate(12, 1, 1, 0) \o Payload(13, 2)),
           WithCrc16(FrameHeaderRate(4, 1, 2, 0) \o Payload(17, 3)) >>,
        BlockSizes, 0)

(* complete streams of whole, well-formed frames *)
ValidStreams ==
  { "plain", "shortlast", "shortmid", "ratechange", "falsesync", "zerocrc",
    "falseframe", "strayf8" }

StreamNames ==
  ValidStreams \cup { "truncated", "badmagic", "noinfo", "zerorate", "ratezero" }

StreamOf(name) ==
  CASE name = "plain" -> StreamPlain
    [] name = "shortlast" -> StreamShortLast
    [] name = "shortmid" -> StreamShortMid
    [] name = "ratechange" -> StreamRateChange
    [] name = "falsesync" -> StreamFalseSync
    [] name = "zerocrc" -> StreamZeroCrc
    [] name = "falseframe" -> StreamFalseFrame
    [] name = "strayf8" -> StreamStrayF8
    [] name = "truncated" -> StreamTruncated
    [] name = "badmagic" -> StreamBadMagic
    [] name = "noinfo" -> StreamNoInfo
    [] name = "zerorate" -> StreamZeroRate
    [] name = "ratezero" -> StreamRateZero

(* ------------------------------------------------------------------ *)
(* The filter in its session                                           *)
(* ------------------------------------------------------------------ *)

VARIABLES
  ctx,      \* GF_FLACDmxCtx
  out,      \* the output pid: number of full configurations set, and the
            \* packets sent and end of stream since the last play event
  pck,      \* the packet at the head of the input pid, or NoPck
  src,      \* the upstream source: its stream, how much of it was
            \* dispatched, file or not
  ret,      \* what the last call of flac_dmx_process returned
  seeks,    \* the start offsets of the GF_FEVT_SOURCE_SEEK events sent
  sess,     \* the events so far: play and stop events, allocation failures,
            \* (and how many of each the session may see), the last play's
            \* start, whether it followed a stop, whether a frame was consumed
            \* since, whether the source was moved, and the stream offset
            \* (origin) of the first byte that enters the reservoir after the
            \* last event that left it empty
  last,     \* the last operation, and for flac_dmx_process what it found
            \* and what it did
  hazard    \* undefined behaviour met so far, asserts that failed

vars == << ctx, out, pck, src, ret, seeks, sess, last, hazard >>

(* bounds of the model: events and allocation failures of one session *)
MaxPlays == 2

MaxStops == 1

MaxAllocFail == 1

(* sizes of the packets the source sends, besides all that is left *)
ChunkSizes == { 40 }

(* start times a play event asks for, in seconds *)
StartTimes == { 0, 1 }

(* timescale of an input pid that declares one, and the cts of its first
   packet *)
Timescales == { 0, 600 }

StampBase == 100

(* values an uninitialized FLACHeader may hold *)
JunkHeaders ==
  { [ok |-> FALSE, block_size |-> 0, sample_rate |-> 0, channels |-> 0],
    [ok |-> FALSE, block_size |-> 1152, sample_rate |-> 8000, channels |-> 1] }

(* the number of samples of s before the frame that holds byte offset pos *)
RECURSIVE SamplesBefore(_, _, _, _)
SamplesBefore(s, pos, k, at) ==
  IF k > Len(s.lens) \/ pos < at + s.lens[k] THEN 0
  ELSE s.bss[k] + SamplesBefore(s, pos, k + 1, at + s.lens[k])

(* the cts the source stamps on a packet that starts at stream offset pos *)
Stamp(s, timescale, pos) ==
  StampBase + gf_timestamp_rescale(SamplesBefore(s, pos, 1, s.first), 8000, timescale)

(* a faulty construction: the seek index holds two entries *)
NewCtx_Indexed(docrc, timescale) ==
  [index |-> 1, docrc |-> docrc, opid |-> timescale # 0,
   file_pos |-> 0, cts |-> 0, duration_num |-> << 0, 0 >>,
   start_range |-> 0, in_seek |-> FALSE, timescale |-> timescale,
   is_playing |-> FALSE, is_file |-> FALSE, initial_play_done |-> FALSE,
   file_loaded |-> FALSE, in_error |-> FALSE, initialized |-> FALSE,
   sample_rate |-> 0, nb_channels |-> 0, bits_per_sample |-> 0,
   block_size |-> 0, ch_layout |-> 0,
   flac_buffer |-> << >>, flac_buffer_alloc |-> 0, resume_from |-> 0,
   byte_offset |-> 0, src_pck |-> FALSE,
   indexes |-> << [pos |-> 42, duration |-> 0], [pos |-> 66, duration |-> 2] >>,
   copy_props |-> timescale # 0, dsi_crc |-> << 0, 0 >>, is_sync |-> FALSE]

(* the context after construction and flac_dmx_configure_pid: the private
   data is zeroed, index and docrc are the filter arguments *)
NewCtx(docrc, timescale) ==
  [index |-> 1, docrc |-> docrc, opid |-> timescale # 0,
   file_pos |-> 0, cts |-> 0, duration_num |-> << 0, 0 >>,
   start_range |-> 0, in_seek |-> FALSE, timescale |-> timescale,
   is_playing |-> FALSE, is_file |-> FALSE, initial_play_done |-> FALSE,
   file_loaded |-> FALSE, in_error |-> FALSE, initialized |-> FALSE,
   sample_rate |-> 0, nb_channels |-> 0, bits_per_sample |-> 0,
   block_size |-> 0, ch_layout |-> 0,
   flac_buffer |-> << >>, flac_buffer_alloc |-> 0, resume_from |-> 0,
   byte_offset |-> 0, src_pck |-> FALSE, indexes |-> << >>,
   copy_props |-> timescale # 0, dsi_crc |-> << 0, 0 >>, is_sync |-> FALSE]

NewOut == [sent |-> << >>, ncfg |-> 0, eos |-> FALSE]

NewSess(budget) ==
  [plays |-> 0, stops |-> 0, fails |-> 0, budget |-> budget, t |-> 0,
   stopped |-> FALSE, after_stop |-> FALSE, fresh |-> TRUE, moved |-> FALSE,
   origin |-> 0]

(* what an operation other than flac_dmx_process leaves in last: pre holds
   the clock and whether the stream was playing when the event came *)
Did(op) == [op |-> op, npass |-> 0, scan |-> << >>, frames |-> << >>,
            pre |-> [cts |-> ctx.cts, is_playing |-> ctx.is_playing]]

(* the last call of flac_dmx_process on a playing, initialized stream took a
   packet, searched the reservoir and returned without a frame boundary for
   the bytes it left there *)
Unresolved ==
  /\ last.op = "process" /\ ret = "GF_OK"
  /\ last.pre.has_pck /\ last.pre.initialized /\ last.pre.is_playing
  /\ Len(ctx.flac_buffer) > 20

(* the context and the input as flac_dmx_process finds them *)
Found(c, p, is_eos) ==
  [size |-> Len(c.flac_buffer), cts |-> c.cts, has_pck |-> p.some,
   is_eos |-> is_eos, initialized |-> c.initialized,
   is_playing |-> c.is_playing, is_sync |-> c.is_sync, in_seek |-> c.in_seek,
   in_error |-> c.in_error, fresh |-> sess.fresh, nsent |-> Len(out.sent),
   unresolved |-> Unresolved]

InitWith(names, docrcs, timescales, files, budget) ==
  /\ \E name \in names, docrc \in docrcs, ts \in timescales, file \in files :
       /\ ctx = NewCtx(docrc, ts)
       /\ src = [name |-> name, stream |-> StreamOf(name), pos |-> 0,
                 file |-> file /\ ts = 0]
  /\ out = NewOut
  /\ pck = NoPck
  /\ ret = ""
  /\ seeks = << >>
  /\ sess = NewSess(budget)
  /\ last = Did("init")
  /\ hazard = [ub |-> FALSE, asserts |-> TRUE]

Alive == ret \notin {"SIGFPE", "SIGSEGV"}

Bytes == src.stream.bytes

(* the packet of n bytes the source dispatches from its position *)
PacketAt(n) ==
  [some |-> TRUE,
   data |-> SubSeq(Bytes, src.pos + 1, src.pos + n),
   cts |-> IF ctx.timescale # 0 THEN Stamp(src.stream, ctx.timescale, src.pos)
           ELSE NoTs,
   bo |-> IF src.file THEN src.pos ELSE NoBo]

(* what the input pid may hold when flac_dmx_process is called: the packet
   still pending, else nothing (0) or a new packet of one of the sizes, or
   of all that is left *)
Arrivals ==
  IF pck.some THEN {0}
  ELSE {0} \cup {IF n < Len(Bytes) - src.pos THEN n ELSE Len(Bytes) - src.pos :
                   n \in IF src.pos < Len(Bytes) THEN ChunkSizes \cup {Len(Bytes)}
                         ELSE {}}

(* what the environment may decide during one call of flac_dmx_process:
   which allocation fails, if any (how a division by zero ends is decided
   in Divided) *)
Decisions ==
  LET quiet == [srcfile |-> src.file,
                junk |-> CHOOSE j \in JunkHeaders : j.block_size = 0,
                fail_at |-> 0, realloc_fails |-> FALSE, div0 |-> "trap"]
  IN {quiet}
     \cup (IF sess.fails < sess.budget.fails
           THEN {[quiet EXCEPT !.fail_at = 1], [quiet EXCEPT !.fail_at = 2],
                 [quiet EXCEPT !.realloc_fails = TRUE]}
           ELSE {})

(* gf_filter_pid_is_eos: the source has signalled the end of its stream once
   all of it is dispatched *)
IsEos(p) == ~p.some /\ src.pos = Len(Bytes)

(* flac_dmx_process returned r, after the source dispatched n bytes and the
   environment decided X *)
Returns(n, p, X, r) ==
  /\ (X.fail_at # 0 \/ X.realloc_fails) => r.ret \in {"GF_OUT_OF_MEM", "SIGSEGV"}
  /\ ctx' = r.c
  /\ out' = [sent |-> r.sent, ncfg |-> r.ncfg, eos |-> r.eos]
  /\ pck' = IF r.drop THEN NoPck ELSE p
  /\ src' = [src EXCEPT !.pos = src.pos + n]
  /\ ret' = r.ret
  /\ sess' = [sess EXCEPT !.fails = IF r.ret \in {"GF_OUT_OF_MEM", "SIGSEGV"}
                                    THEN @ + 1 ELSE @,
                          !.fresh = @ /\ r.frames = << >>]
  /\ hazard' = [ub |-> hazard.ub \/ r.ub,
                asserts |-> hazard.asserts /\ r.asserts]
  /\ last' = [op |-> "process", npass |-> r.npass, scan |-> r.scan,
              frames |-> r.frames, pre |-> Found(ctx, p, IsEos(p)),
              upto |-> src.pos + n,
              failed |-> [realloc |-> X.realloc_fails, alloc |-> X.fail_at]]

(* r0 is the call's result for one content of the uninitialized FLACHeader;
   when the call reads it, any content is possible *)
Called(n, p, X, r0) ==
  \E junk \in IF r0.ub THEN JunkHeaders ELSE {X.junk} :
    Returns(n, p, X,
            IF junk = X.junk THEN r0
            ELSE flac_dmx_process(ctx, out, p, IsEos(p), [X EXCEPT !.junk = junk]))

(* r0 is the call's result when a division by zero traps; when the call
   met one, the division may also have yielded 0 *)
Divided(n, p, X, r0) ==
  \E div0 \in IF r0.ret = "SIGFPE" THEN {"trap", "zero"} ELSE {X.div0} :
    IF div0 = X.div0 THEN Called(n, p, X, r0)
    ELSE Called(n, p, [X EXCEPT !.div0 = div0],
                flac_dmx_process(ctx, out, p, IsEos(p), [X EXCEPT !.div0 = div0]))

Arrived(n, p, X) ==
  Divided(n, p, X, flac_dmx_process(ctx, out, p, IsEos(p), X))

(* the session calls flac_dmx_process.  The source has dispatched n more
   bytes, or nothing *)
Process ==
  /\ Alive
  /\ \E n \in Arrivals, X \in Decisions :
       Arrived(n, IF n = 0 THEN pck ELSE PacketAt(n), X)
  /\ UNCHANGED seeks

(* a GF_FEVT_PLAY on the output pid, with start_range t.  A source seek
   repositions the source and empties the input pid; a play that is not
   cancelled reaches the source, which goes on from where it is or, when
   the filter emptied its reservoir for it, may start its stream again *)
Play ==
  /\ Alive /\ ctx.opid /\ sess.plays < sess.budget.plays
  /\ \E t \in StartTimes, rewind \in BOOLEAN :
       LET r == PlayEvent(ctx, t, src.file)
           moves == r.seek \/ rewind
           to == IF r.seek THEN r.c.file_pos ELSE 0
       IN /\ rewind => (~r.cancel /\ Len(r.c.flac_buffer) = 0
                        /\ (src.pos # 0 \/ pck.some))
          /\ ctx' = r.c
          /\ seeks' = IF r.seek THEN Append(seeks, r.c.file_pos) ELSE seeks
          /\ src' = IF moves THEN [src EXCEPT !.pos = to] ELSE src
          /\ pck' = IF moves THEN NoPck ELSE pck
          /\ sess' = [sess EXCEPT !.plays = @ + 1, !.t = t, !.stopped = FALSE,
                                  !.after_stop = sess.stopped, !.fresh = TRUE,
                                  !.moved = @ \/ (moves /\ (src.pos # to \/ pck.some)),
                                  !.origin = IF r.c.flac_buffer # << >> THEN @
                                             ELSE IF moves THEN to
                                             ELSE src.pos - Len(pck.data)]
  /\ out' = [NewOut EXCEPT !.ncfg = out.ncfg]
  /\ last' = Did("play")
  /\ UNCHANGED << ret, hazard >>

(* a GF_FEVT_STOP on the output pid; the event is not cancelled and the
   input pid is emptied *)
Stop ==
  /\ Alive /\ ctx.opid /\ sess.stops < sess.budget.stops
  /\ ctx' = StopEvent(ctx)
  /\ pck' = NoPck
  /\ sess' = [sess EXCEPT !.stops = @ + 1, !.stopped = TRUE]
  /\ last' = Did("stop")
  /\ UNCHANGED << out, src, ret, seeks, hazard >>

(* A session of play and stop events on one stream *)
Init ==
  InitWith({"plain"}, {FALSE}, Timescales, BOOLEAN,
           [plays |-> MaxPlays, stops |-> MaxStops, fails |-> 0])

Next == Process \/ Play \/ Stop

Spec == Init /\ [][Next]_vars

(* Any of the streams, fed once: the play event that starts the session is
   the only event, and allocations may fail *)
InitFeed ==
  InitWith(StreamNames, BOOLEAN, Timescales, BOOLEAN,
           [plays |-> 1, stops |-> 0, fails |-> MaxAllocFail])

NextFeed == Process \/ Play

SpecFeed == InitFeed /\ [][NextFeed]_vars

(* A play event on a file whose seek index is populated: the index is any
   sequence of at most MaxIndex entries, increasing in position and in
   duration (seconds) *)
MaxIndex == 3

IndexEntries == [pos : { 42, 66, 88, 114 }, duration : 0..3]

SeekIndexes ==
  { s \in UNION { [1..n -> IndexEntries] : n \in 1..MaxIndex } :
      \A i \in 1..(Len(s) - 1) :
        s[i].pos < s[i + 1].pos /\ s[i].duration < s[i + 1].duration }

InitSeek ==
  /\ \E ix \in SeekIndexes, done \in BOOLEAN :
       ctx = [NewCtx(FALSE, 0) EXCEPT !.opid = TRUE, !.is_file = TRUE,
                                      !.file_loaded = TRUE, !.initialized = TRUE,
                                      !.sample_rate = 8000, !.nb_channels = 2,
                                      !.bits_per_sample = 16, !.block_size = 4096,
                                      !.ch_layout = 1, !.indexes = ix,
                                      !.initial_play_done = done]
  /\ src = [name |-> "plain", stream |-> StreamPlain, pos |-> 0, file |-> TRUE]
  /\ out = [NewOut EXCEPT !.ncfg = 1]
  /\ pck = NoPck
  /\ ret = ""
  /\ seeks = << >>
  /\ sess = NewSess([plays |-> MaxPlays, stops |-> 0, fails |-> 0])
  /\ last = Did("init")
  /\ hazard = [ub |-> FALSE, asserts |-> TRUE]

NextSeek == Play

SpecSeek == InitSeek /\ [][NextSeek]_vars

(* The clock of a stream with an output timescale: the stream was
   initialized at one of the sample rates and is playing, and frames of any
   of the block sizes advance its clock, at most MaxTicks of them.  The
   largest block sizes are left out at the largest timescales (Fits) *)
MaxTicks == 2

ClockTimescales == { 1, 600, 1000, 44100, 90000 }

ClockRates == { 1, 8000, 44100, 48000, 655350 }

ClockBlocks == { 1, 192, 576, 1152, 4096, 4608, 65535, 65536 }

InitClock ==
  /\ \E ts \in ClockTimescales, sr \in ClockRates :
       ctx = [NewCtx(FALSE, ts) EXCEPT !.initialized = TRUE, !.is_playing = TRUE,
                                       !.initial_play_done = TRUE,
                                       !.sample_rate = sr, !.nb_channels = 2,
                                       !.bits_per_sample = 16, !.ch_layout = 1]
  /\ src = [name |-> "plain", stream |-> StreamPlain, pos |-> 0, file |-> FALSE]
  /\ out = [NewOut EXCEPT !.ncfg = 1]
  /\ pck = NoPck
  /\ ret = ""
  /\ seeks = << >>
  /\ sess = NewSess([plays |-> 0, stops |-> 0, fails |-> 0])
  /\ last = [op |-> "init", nb_samp |-> 0, ticks |-> 0, pre |-> [cts |-> 0]]
  /\ hazard = [ub |-> FALSE, asserts |-> TRUE]

(* the u64 product of line 297 and what is computed from it stay within
   the 32-bit integers of TLC *)
Fits(nb_samp, timescale, sample_rate) ==
  nb_samp <= (2147483647 - 2 * sample_rate) \div (2 * timescale)

(* line 764: the clock advances by a frame of nb_samp samples *)
Tick ==
  /\ last.ticks < MaxTicks
  /\ \E nb_samp \in ClockBlocks :
       /\ Fits(nb_samp, ctx.timescale, ctx.sample_rate)
       /\ ctx' = flac_dmx_update_cts(ctx, nb_samp)
       /\ last' = [op |-> "update_cts", nb_samp |-> nb_samp,
                   ticks |-> last.ticks + 1, pre |-> [cts |-> ctx.cts]]
  /\ UNCHANGED << out, pck, src, ret, seeks, sess, hazard >>

NextClock == Tick

SpecClock == InitClock /\ [][NextClock]_vars

(* ------------------------------------------------------------------ *)
(* Properties                                                          *)
(* ------------------------------------------------------------------ *)

(* the byte content and cts of the packets sent *)
Emitted(sent) ==
  [i \in 1..Len(sent) |-> [data |-> sent[i].data, cts |-> sent[i].cts]]

(* the payloads of the packets sent *)
Payloads(sent) == [i \in 1..Len(sent) |-> sent[i].data]

(* the k-th frame of stream s: where it starts, its bytes, and the samples
   of the frames before it *)
FrameStart(s, k) == s.first + SumSeq(SubSeq(s.lens, 1, k - 1))

FrameBytes(s, k) == SubSeq(s.bytes, FrameStart(s, k) + 1, FrameStart(s, k) + s.lens[k])

SamplesUpTo(s, k) == SumSeq(SubSeq(s.bss, 1, k - 1))

(* a call during which no allocation fails *)
Quiet(file) ==
  [srcfile |-> file, junk |-> CHOOSE j \in JunkHeaders : j.block_size = 0,
   fail_at |-> 0, realloc_fails |-> FALSE, div0 |-> "trap"]

(* a new filter without timescale is given the stream s as one packet, then
   the play event from the start, then the end of input: the results of the
   two calls of flac_dmx_process, and the packets sent *)
OneChunkFed(s, docrc, file) ==
  flac_dmx_process(NewCtx(docrc, 0), NewOut,
                   [some |-> TRUE, data |-> s.bytes, cts |-> NoTs,
                    bo |-> IF file THEN 0 ELSE NoBo],
                   FALSE, Quiet(file))

OneChunkEnded(r, file) ==
  flac_dmx_process(PlayEvent(r.c, 0, file).c,
                   [sent |-> r.sent, ncfg |-> r.ncfg, eos |-> r.eos],
                   NoPck, TRUE, Quiet(file))

OneChunkRun(s, docrc, file) == OneChunkEnded(OneChunkFed(s, docrc, file), file).sent

(* a complete valid stream was played from its start to the end of stream,
   without a failed allocation and without the source being moved *)
PlayedThrough ==
  /\ last.op = "process" /\ ret = "GF_EOS"
  /\ src.name \in ValidStreams
  /\ sess.t = 0 /\ sess.fails = 0 /\ ~sess.moved

(* C1: chunking invariance.  When a complete valid stream was played to its
   end without timescale, whatever the packets it came in, the frames sent
   (bytes and cts) are those sent when the stream comes as one packet *)
C1_ChunkingInvariance ==
  (PlayedThrough /\ ctx.timescale = 0)
    => Emitted(out.sent) = Emitted(OneChunkRun(src.stream, ctx.docrc, src.file))

(* C2: bit-exact passthrough.  When a complete valid stream was played to
   its end, the payloads of the frames sent, concatenated, are the bytes of
   the stream from the start of its first frame to its end *)
C2_BitExactPassthrough ==
  PlayedThrough
    => Concat(Payloads(out.sent)) = SubSeq(Bytes, src.stream.first + 1, Len(Bytes))

(* C3: output ordering.  No frame is sent before the stream is initialized,
   and an initialized stream had its full configuration set exactly once *)
C3_OutputOrdering ==
  /\ out.sent # << >> => ctx.initialized
  /\ ctx.initialized => out.ncfg = 1
  /\ out.ncfg <= 1

(* C4: per-frame timing without rescale.  Without timescale, when a valid
   stream is played from its start, a packet that carries the k-th frame has
   the block size of that frame as duration and the sum of the block sizes
   of the frames before it as cts *)
C4_FrameTiming ==
  (src.name \in ValidStreams /\ ctx.timescale = 0
   /\ sess.t = 0 /\ sess.fails = 0 /\ ~sess.moved)
    => \A i \in 1..Len(out.sent), k \in 1..Len(src.stream.lens) :
         out.sent[i].data = FrameBytes(src.stream, k)
           => /\ out.sent[i].dur = src.stream.bss[k]
              /\ out.sent[i].cts = SamplesUpTo(src.stream, k)

(* the clock of the context does not go back over a call of
   flac_dmx_process or a play event that finds the stream playing *)
ClockKept ==
  (last.op \in { "process", "play" } /\ last.pre.is_playing)
    => ctx.cts >= last.pre.cts

(* the first frame processed after a stop and a play is processed at cts 0 *)
ClockReset ==
  (last.op = "process" /\ sess.after_stop /\ last.pre.fresh /\ last.frames # << >>)
    => last.frames[1].cts = 0

(* C5, as the code has it: without an input timescale, ctx->cts never
   decreases between a play event and the next stop event, and it is 0 when
   the first frame after a stop and a play is processed *)
C5_ClockWithoutTimescale ==
  ctx.timescale = 0 => ClockKept /\ ClockReset

(* C5 as stated: the same with or without an input timescale *)
C5_ClockAnyTimescale == ClockKept /\ ClockReset

(* a stream without timescale was stopped and played again, and its first
   frame since was processed and moved the clock *)
C5_Witness ==
  /\ ctx.timescale = 0
  /\ last.op = "process" /\ sess.after_stop /\ last.pre.fresh
  /\ last.frames # << >> /\ ctx.cts > 0

(* the entries of the seek index whose duration is at most t *)
EntriesUpTo(t) == { i \in 1..Len(ctx.indexes) : ctx.indexes[i].duration <= t }

LastUpTo(t) == CHOOSE i \in EntriesUpTo(t) : \A j \in EntriesUpTo(t) : j <= i

(* C6: seek resolution.  After a play event with start time t > 0 on a file
   whose index has an entry of duration <= t, file_pos and cts are those of
   the last such entry *)
C6_SeekResolution ==
  (last.op = "play" /\ ctx.is_file /\ sess.t > 0 /\ EntriesUpTo(sess.t) # { })
    => /\ ctx.file_pos = ctx.indexes[LastUpTo(sess.t)].pos
       /\ ctx.cts = ctx.indexes[LastUpTo(sess.t)].duration * ctx.sample_rate

(* C7: seek emission suppression.  On a file source nothing is sent since
   the play event while in_seek is set; every packet sent since ends, on the
   filter's clock (cts + block size, in samples), at or after the start time
   of the play event; and a call of flac_dmx_process that finds in_seek
   cleared leaves it cleared *)
C7_SeekSuppression ==
  ctx.is_file
    => /\ ctx.in_seek => out.sent = << >>
       /\ \A i \in 1..Len(out.sent) :
            out.sent[i].cts + out.sent[i].dur >= sess.t * out.sent[i].sr
       /\ (last.op = "process" /\ ~last.pre.in_seek) => ~ctx.in_seek
       /\ last.op = "process"
            => \A i \in 1..Len(last.frames), j \in 1..Len(last.frames) :
                 (i < j /\ last.frames[i].sent) => last.frames[j].sent

(* after a play event with a start time > 0 on a file, a frame was passed
   over and a later one sent *)
C7_Witness ==
  /\ ctx.is_file /\ sess.t > 0 /\ ~ctx.in_seek
  /\ out.sent # << >> /\ out.sent[1].cts > 0

(* C8: forced flush.  A call that finds the end of input, no packet and a
   reservoir that holds bytes of an initialized, playing, synchronized
   stream sends the whole reservoir as one frame, without a scan *)
C8_ForcedFlush ==
  (/\ last.op = "process"
   /\ last.pre.is_eos /\ ~last.pre.has_pck /\ last.pre.size > 0
   /\ last.pre.initialized /\ last.pre.is_playing /\ last.pre.is_sync
   /\ ~last.pre.in_seek /\ ~last.pre.in_error /\ sess.fails = 0)
    => /\ Len(out.sent) = last.pre.nsent + 1
       /\ Len(out.sent[Len(out.sent)].data) = last.pre.size
       /\ Len(last.frames) = 1
       /\ last.scan = << >>

(* a call of flac_dmx_process that found the end of input, no packet, and
   the stream playing *)
AtEndOfInput ==
  last.op = "process" /\ last.pre.is_eos /\ ~last.pre.has_pck /\ last.pre.is_playing

(* what C9 says of such a call *)
EndsStream ==
  /\ ret = "GF_EOS"
  /\ last.npass <= 2
  /\ ctx.flac_buffer = << >>
  /\ out.eos
  /\ ~ctx.src_pck

(* what holds of the end of input: a call at the end of input on a playing
   stream makes at most two passes, and unless the stream is in error, an
   allocation fails in the call or the call divides by a sample rate of 0,
   it empties the reservoir, sets the end of stream on the output, holds no
   input reference and returns GF_EOS; the end of stream is never set while
   the reservoir holds bytes *)
C9_EndOfStreamUnlessError ==
  /\ AtEndOfInput => last.npass <= 2
  /\ (AtEndOfInput /\ ~last.pre.in_error /\ ret \notin {"GF_OUT_OF_MEM", "SIGFPE"})
       => EndsStream
  /\ out.eos => ctx.flac_buffer = << >>

(* C9 as stated: every call at the end of input on a playing stream *)
C9_EndOfStream ==
  /\ AtEndOfInput => EndsStream
  /\ out.eos => ctx.flac_buffer = << >>

(* the end of input found a reservoir that held bytes: they were flushed and
   the second pass ended the stream *)
C9_Witness ==
  AtEndOfInput /\ last.pre.size > 0 /\ last.npass = 2 /\ ret = "GF_EOS" /\ out.eos

(* the candidate of decision d announces the established parameters *)
SameParameters(d) ==
  d.hdr.sample_rate = d.sample_rate /\ d.hdr.channels = d.ch_layout

(* C10: default footer-CRC policy.  Of the candidates whose header decoded
   in a call: before initialization each is accepted at once; with docrc off
   and the stream initialized, a candidate is accepted without CRC16 check
   exactly when it announces the established sample rate and channel layout,
   else it is accepted exactly when the footer before it matches, and when
   it is not the scan goes on one byte past it *)
C10_FooterCrcPolicy ==
  last.op = "process"
    => \A i \in 1..Len(last.scan) :
         /\ ~last.scan[i].initialized
              => last.scan[i].accepted /\ ~last.scan[i].checked
         /\ (last.scan[i].initialized /\ ~last.scan[i].docrc)
              => /\ last.scan[i].checked <=> ~SameParameters(last.scan[i])
                 /\ last.scan[i].accepted
                      <=> (SameParameters(last.scan[i]) \/ last.scan[i].footer_ok)
                 /\ ~last.scan[i].accepted
                      => last.scan[i].resumed = last.scan[i].at + 1

(* with docrc off, an initialized stream met a candidate that announced
   other parameters and whose footer did not match: it was passed over, and
   the next candidate was accepted *)
C10_Witness ==
  /\ last.op = "process"
  /\ \E i \in 1..(Len(last.scan) - 1) :
       /\ last.scan[i].initialized /\ ~last.scan[i].docrc
       /\ ~SameParameters(last.scan[i])
       /\ ~last.scan[i].accepted
       /\ last.scan[i + 1].accepted

(* the decision of the scan, in the last call, that took the end of frame f
   as a frame boundary after a footer CRC16 check that matched *)
VerifiedBy(f, d) ==
  /\ d.from = f.start /\ d.at = f.size
  /\ d.initialized /\ d.checked /\ d.accepted /\ d.footer_ok

(* C11: enforced CRC.  With docrc on, every frame sent by a call of
   flac_dmx_process, the last frame of the stream included, was delimited by
   a candidate accepted on a footer CRC16 check of the frame's bytes *)
C11_EnforcedCrc ==
  (last.op = "process" /\ ctx.docrc)
    => \A i \in 1..Len(last.frames) :
         last.frames[i].sent
           => \E j \in 1..Len(last.scan) : VerifiedBy(last.frames[i], last.scan[j])

(* the stream offset of the first byte of frame f of the last call: the
   reservoir of that pass ended where the input handed to the call ends *)
FramePos(f) == last.upto - f.held + f.start

(* the stream offsets at which a frame of the stream starts or the last one
   ends *)
Boundaries(s) ==
  { FrameStart(s, k) : k \in 1..Len(s.lens) } \cup { Len(s.bytes) }

(* C12: resync correctness.  When a valid stream is played from its start,
   whatever its payloads hold, every frame sent starts and ends at a frame
   boundary of the stream *)
C12_ResyncCorrectness ==
  (/\ last.op = "process" /\ src.name \in ValidStreams
   /\ sess.t = 0 /\ sess.fails = 0 /\ ~sess.moved)
    => \A i \in 1..Len(last.frames) :
         last.frames[i].sent
           => /\ FramePos(last.frames[i]) \in Boundaries(src.stream)
              /\ FramePos(last.frames[i]) + last.frames[i].size
                   \in Boundaries(src.stream)

(* one step of the session seen from the error state: the state is kept by
   every operation; a call of flac_dmx_process that finds it returns
   GF_NON_COMPLIANT_BITSTREAM and leaves the context and the output as they
   are; and the call that enters it empties the reservoir and returns the
   same error *)
ErrorAbsorbs ==
  /\ ctx.in_error => ctx'.in_error
  /\ (ctx.in_error /\ last'.op = "process")
       => /\ ctx' = ctx
          /\ out' = out
          /\ ret' = "GF_NON_COMPLIANT_BITSTREAM"
  /\ (~ctx.in_error /\ ctx'.in_error)
       => /\ last'.op = "process"
          /\ ctx'.flac_buffer = << >>
          /\ ret' = "GF_NON_COMPLIANT_BITSTREAM"

(* C13: the fatal error is absorbing.  Once a bad magic or a missing
   STREAMINFO set in_error, with the reservoir emptied, every call of
   flac_dmx_process returns GF_NON_COMPLIANT_BITSTREAM, sends nothing and
   changes nothing, whatever packets and events arrive, and in_error is
   never cleared *)
C13_FatalErrorAbsorbing == [][ErrorAbsorbs]_vars

(* flac_dmx_process was called in the error state, after a play event, with
   a packet on the input *)
C13_Witness ==
  /\ ctx.in_error /\ last.op = "process" /\ last.pre.in_error
  /\ last.pre.has_pck /\ ctx.is_playing
  /\ ret = "GF_NON_COMPLIANT_BITSTREAM"

(* one step of the session seen from the stop event: the event changes
   is_playing, src_pck and cts and nothing else of the context; and once a
   stop event came, no step takes an initialized stream back to the
   uninitialized state, sets its configuration again or puts it in error *)
StopHandled ==
  /\ last'.op = "stop"
       => ctx' = [ctx EXCEPT !.is_playing = FALSE, !.src_pck = FALSE, !.cts = 0]
  /\ (ctx.initialized /\ (sess'.stopped \/ sess'.after_stop))
       => /\ ctx'.initialized
          /\ ~ctx'.in_error
          /\ out'.ncfg = out.ncfg
          /\ ctx'.nb_channels = ctx.nb_channels
          /\ ctx'.bits_per_sample = ctx.bits_per_sample
          /\ ctx'.block_size = ctx.block_size

(* C14: stop handling.  A stop event clears is_playing, releases src_pck and
   sets cts to 0, and leaves the stream parameters and initialized as they
   are; after the next play event the stream is not initialized again and
   does not enter the error state *)
C14_StopHandling == [][StopHandled]_vars

(* a stream without timescale, initialized when its output pid was created,
   was stopped and played again, and frames were sent since *)
C14_Witness ==
  /\ ctx.timescale = 0 /\ sess.after_stop /\ last.op = "process"
  /\ ctx.initialized /\ ~ctx.in_error /\ out.ncfg = 1
  /\ out.sent # << >>

(* C15: emission is withheld until play.  A call of flac_dmx_process that
   finds the stream not playing, before the first play event or after a stop
   event, sends no frame *)
C15_WithheldUntilPlay ==
  (last.op = "process" /\ ~last.pre.is_playing)
    => /\ Len(out.sent) = last.pre.nsent
       /\ \A i \in 1..Len(last.frames) : ~last.frames[i].sent

(* a call initialized the stream while it was not playing and left whole
   frames in the reservoir *)
C15_Witness ==
  /\ last.op = "process" /\ ~last.pre.is_playing
  /\ ~last.pre.initialized /\ ctx.initialized
  /\ Len(ctx.flac_buffer) >= Len(FrameBytes(src.stream, 1)) + Len(FrameBytes(src.stream, 2))
  /\ out.sent = << >>

(* the frames of stream s that lie wholly at or after stream offset pos *)
FramesFrom(s, pos) == { k \in 1..Len(s.lens) : FrameStart(s, k) >= pos }

(* C16: recovery from loss of sync.  A play event emptied the reservoir of
   an initialized stream and the input went on in the middle of a valid
   stream, which was then played to its end: the bytes before the next frame
   boundary were dropped and the frames that follow were sent, each as one
   packet, with docrc on or off *)
C16_Recovery ==
  (/\ last.op = "process" /\ ret = "GF_EOS"
   /\ src.name \in ValidStreams /\ sess.fails = 0
   /\ ctx.initialized /\ ~ctx.is_file
   /\ sess.origin > src.stream.first)
    => /\ \A k \in FramesFrom(src.stream, sess.origin) :
            \E i \in 1..Len(out.sent) : out.sent[i].data = FrameBytes(src.stream, k)
       /\ \A i \in 1..Len(out.sent) :
            \E k \in FramesFrom(src.stream, sess.origin) :
              out.sent[i].data = FrameBytes(src.stream, k)

(* C17: sync assertion validity.  Whatever bytes arrive and whatever play,
   stop and process operations are made, every region consumed at the end
   of the frame loop starts with 0xFF and a second byte whose upper six
   bits are 111110: the two asserts of lines 766-767 have never failed *)
C17_SyncAsserts == hazard.asserts

(* C18: resume cursor.  When the call before this one returned without a
   frame boundary for the bytes it left in the reservoir, this call does
   not decide again on a candidate of those bytes that the call before
   could already decide on: every candidate it decides on from the start
   of the reservoir lies within 17 bytes of the end of what was held, or
   in the bytes that arrived since *)
C18_ResumeCursor ==
  (last.op = "process" /\ last.pre.unresolved /\ last.pre.has_pck)
    => \A i \in 1..Len(last.scan) :
         last.scan[i].from = 0 => last.scan[i].at + 17 >= last.pre.size

(* n / d rounded to the nearest integer, halves upwards *)
Round(n, d) == (2 * n + d) \div (2 * d)

(* C19: rescaled clock advance.  With an output timescale that differs from
   the sample rate, a frame of block_size samples advances cts by
   block_size * timescale / sample_rate cut to an integer: the largest
   integer that is not above the quotient *)
C19_ClockAdvanceTruncates ==
  (last.op = "update_cts" /\ ctx.timescale # ctx.sample_rate)
    => LET inc == ctx.cts - last.pre.cts
       IN /\ inc * ctx.sample_rate <= last.nb_samp * ctx.timescale
          /\ (inc + 1) * ctx.sample_rate > last.nb_samp * ctx.timescale

(* C19 as stated: the advance is the quotient rounded to the nearest
   integer *)
C19_ClockAdvanceRounds ==
  (last.op = "update_cts" /\ ctx.timescale # ctx.sample_rate)
    => ctx.cts - last.pre.cts = Round(last.nb_samp * ctx.timescale, ctx.sample_rate)

(* the clock advanced by a frame whose rescaled length is at least half a
   tick above an integer *)
C19_Witness ==
  /\ last.op = "update_cts" /\ ctx.timescale # ctx.sample_rate
  /\ 2 * ((last.nb_samp * ctx.timescale) % ctx.sample_rate) >= ctx.sample_rate
  /\ ctx.cts > last.pre.cts

(* C20: originating byte offset.  Every frame sent with a byte offset
   carries the stream offset of its first byte; the frames sent by one call
   from a reservoir of contiguous packets so differ by the lengths of the
   frames before them *)
C20_ByteOffset ==
  (last.op = "process" /\ sess.fails = 0 /\ ~sess.moved)
    => \A i \in 1..Len(last.frames) :
         (last.frames[i].sent /\ last.frames[i].bo # NoBo)
           => last.frames[i].bo = FramePos(last.frames[i])

(* C21: reservoir growth failure is fatal.  When gf_realloc returned NULL
   while the last call grew the reservoir for its packet, the call returned
   an error code, the instance is in the error state and the reservoir
   holds what it held before *)
C21_GrowthFailureFatal ==
  (last.op = "process" /\ last.failed.realloc)
    => /\ ret \in {"GF_OUT_OF_MEM", "GF_NON_COMPLIANT_BITSTREAM"}
       /\ ctx.in_error
       /\ Len(ctx.flac_buffer) = last.pre.size

(* what C22 asks of a step that handles a play event *)
PlayProtocol ==
  (sess'.plays = sess.plays + 1)
    => IF ctx.is_file
       THEN IF ~ctx.initial_play_done /\ ctx'.file_pos = 0
            THEN ctx'.flac_buffer = ctx.flac_buffer /\ seeks' = seeks
            ELSE /\ ctx'.flac_buffer = << >> /\ ctx'.resume_from = 0
                 /\ seeks' = Append(seeks, ctx'.file_pos)
       ELSE /\ seeks' = seeks
            /\ IF sess'.t # 0 \/ ctx.initial_play_done
               THEN ctx'.flac_buffer = << >> /\ ctx'.resume_from = 0
               ELSE ctx'.flac_buffer = ctx.flac_buffer

(* C22: play protocol.  On a file source the first play event that resolves
   to file position 0 keeps the reservoir and sends no seek, every other
   play event empties the reservoir and sends one source seek to the
   resolved position; on another source no seek is sent and the reservoir
   is emptied exactly when the start time is not 0 or the play is not the
   first *)
C22_PlayProtocol == [][PlayProtocol]_vars

(* a file source was played twice: the first play kept the reservoir, the
   second has just sent the only seek *)
C22_Witness ==
  /\ last.op = "play" /\ ctx.is_file /\ sess.plays = 2
  /\ Len(seeks) = 1 /\ ctx.flac_buffer = << >>

(* C23: the established sample rate is positive.  Once the stream is
   initialized ctx->sample_rate is above 0, whatever STREAMINFO and the
   accepted frame headers hold *)
C23_SampleRatePositive == ctx.initialized => ctx.sample_rate > 0

(* C24: the seek index is never populated.  The index is empty in every
   state; so every source seek sent goes to file position 0, and a play
   event on a file source resolves to file position 0 and leaves cts as it
   was, whatever its start time *)
C24_SeekIndexEmpty ==
  /\ ctx.indexes = << >>
  /\ \A i \in 1..Len(seeks) : seeks[i] = 0
  /\ (last.op = "play" /\ ctx.is_file)
       => ctx.file_pos = 0 /\ ctx.cts = last.pre.cts

(* a file source whose clock had advanced was played again from start time
   1, and the seek was sent *)
C24_Witness ==
  /\ last.op = "play" /\ ctx.is_file /\ sess.t = 1
  /\ last.pre.cts > 0 /\ seeks # << >>

(* how many of the packets sent hold the bytes d *)
Copies(sent, d) == Cardinality({ i \in 1..Len(sent) : sent[i].data = d })

(* no frame of the stream was sent twice since the play event, and the
   reservoir holds no more bytes than the source has dispatched *)
NothingTwice ==
  /\ \A k \in 1..Len(src.stream.lens) :
       Copies(out.sent, FrameBytes(src.stream, k)) <= 1
  /\ Len(ctx.flac_buffer) <= src.pos

(* C25: a failed output allocation loses and duplicates nothing.  A call
   during which gf_filter_pck_new_alloc fails returns GF_OUT_OF_MEM; when
   flac_dmx_process is called again on the packet that is still pending, no
   frame already sent is sent again and the bytes of the packet are not
   appended to the reservoir a second time *)
C25_AllocFailureExact ==
  (last.op = "process" /\ ~sess.moved)
    => /\ last.failed.alloc # 0 => ret = "GF_OUT_OF_MEM"
       /\ NothingTwice

====
